---- MODULE Spec2Model ----
(***************************************************************************)
(* The background transcription worker of script/asr_worker.py: one        *)
(* downloader thread, worker_concurrency worker threads, the bounded job   *)
(* queue between them, the result reporter and the signal handler.         *)
(***************************************************************************)
EXTENDS Integers, Sequences, FiniteSets

\* Config.worker_concurrency (default value of the dataclass field).
worker_concurrency == 2
\* Config.max_queue_size, the maxsize of job_queue (a small capacity, so that
\* the queue fills up).
max_queue_size == 1
\* Number of jobs the Job Source hands out in one run; more than the queue holds.
MaxJobs == 2

Workers == 1..worker_concurrency
JobIds == 1..MaxJobs
NoJob == 0

VARIABLES
    SHUTDOWN,      \* the module-level flag
    mainPc,        \* position of main(): from_env, build_model, wait, stopped, exit1
    job_queue,     \* the items of queue.Queue, oldest first
    unfinished,    \* queue.Queue.unfinished_tasks
    dlPc,          \* position of downloader_loop
    dlJob,         \* id of the job the downloader holds, or NoJob
    wPc,           \* position of each worker_loop
    wItem,         \* the record each worker holds, or NoItem
    nextId,        \* next id the Job Source assigns
    posts,         \* per job id, the payloads POSTed to /api/asr/result, in order
    lastPost,      \* the latest result POST: its job id and whether it was accepted
    pushes,        \* per job id, how many times q.put was called with it
    pops,          \* per job id, how many times q.get returned it
    sigCount,      \* signals delivered to handle_signal
    atSignal,      \* taken when the first signal set the flag: the job being downloaded
    pollsAfterSignal, \* calls of http_post_next_job begun with the flag set
    pushedAfterSignal, \* ids put on the queue with the flag set
    cfg,           \* the Config that Config.from_env builds from the environment
    fate,          \* per job id, how its download or its transcription ended
    pollResult,    \* what http_post_next_job got in the current iteration
    pushOrder,     \* the ids in the order q.put accepted them
    popOrder,      \* the ids in the order q.get returned them
    object_key,    \* per job id, the final path component of the job's object_key
    has_id,        \* per job of the source, whether its object carries an id
    calc           \* a single call of one of the functions: its arguments, then its result

\* The variables of the worker process.
progVars == <<SHUTDOWN, mainPc, job_queue, unfinished, dlPc, dlJob, wPc, wItem,
              nextId, posts, lastPost, pushes, pops, sigCount, atSignal, pollsAfterSignal, pushedAfterSignal,
              object_key, has_id, cfg, fate, pollResult, pushOrder, popOrder>>

vars == <<SHUTDOWN, mainPc, job_queue, unfinished, dlPc, dlJob, wPc, wItem,
          nextId, posts, lastPost, pushes, pops, sigCount, atSignal, pollsAfterSignal, pushedAfterSignal,
          object_key, has_id, calc, cfg, fate, pollResult, pushOrder, popOrder>>

\* download_audio: the cache path of a job, the final path component of its
\* object_key under cfg.audio_cache_dir.
cache_path(id) == IF id \in DOMAIN object_key THEN object_key[id] ELSE id

\* The record the downloader builds for a job (id and cache path).
QueuedJob(id) == [id |-> id, path |-> cache_path(id)]

NoItem == [id |-> NoJob, path |-> NoJob]

\* No call of a function is being looked at.
NoCalc == [op |-> "none"]

\* The values of ASR_WORKER_TOKEN: unset, or set.
Tokens == {"", "secret"}

\* The values of WHISPER_MODEL: a model that loads, and one that does not exist.
WhisperModels == {"small", "no_such_model"}

\* build_model raises when the model cannot be loaded.
build_model_raises(name) == name = "no_such_model"

\* Every job has its own file name.
DistinctKeys == [i \in JobIds |-> i]

\* Every job has the same file name (a/x.wav, b/x.wav, ...).
SameKeys == [i \in JobIds |-> 1]

NoSnapshot == [taken |-> FALSE, dl_job |-> NoJob]

\* Every job of the source carries an id.
AllHaveId == [i \in JobIds |-> TRUE]

\* The first job of the source carries no id (or a null one), the others do.
FirstHasNoId == [i \in JobIds |-> i > 1]

\* The state of the process when main() starts, for a given MAX_QUEUE_SIZE
\* and given object keys and ids of the jobs at the source.
ProgInitOf(mqs, keys, ids) ==
    /\ has_id = ids
    /\ \E token \in Tokens, name \in WhisperModels :
          cfg = [max_queue_size |-> mqs, api_token |-> token, whisper_model |-> name]
    /\ object_key = keys
    /\ SHUTDOWN = FALSE
    /\ mainPc = "from_env"
    /\ job_queue = <<>>
    /\ unfinished = 0
    /\ dlPc = "not_started"
    /\ dlJob = NoJob
    /\ wPc = [w \in Workers |-> "not_started"]
    /\ wItem = [w \in Workers |-> NoItem]
    /\ nextId = 1
    /\ posts = [i \in JobIds |-> <<>>]
    /\ lastPost = [id |-> NoJob, ok |-> TRUE]
    /\ pushes = [i \in JobIds |-> 0]
    /\ pops = [i \in JobIds |-> 0]
    /\ sigCount = 0
    /\ atSignal = NoSnapshot
    /\ pollsAfterSignal = 0
    /\ pushedAfterSignal = {}
    /\ fate = [i \in JobIds |-> "none"]
    /\ pollResult = "none"
    /\ pushOrder = <<>>
    /\ popOrder = <<>>

\* The same, with jobs that all carry an id.
ProgInit(mqs, keys) == ProgInitOf(mqs, keys, AllHaveId)

InitWith(mqs, keys) == ProgInit(mqs, keys) /\ calc = NoCalc

\* MAX_QUEUE_SIZE is set to max_queue_size.
Init == InitWith(max_queue_size, DistinctKeys)

\* MAX_QUEUE_SIZE is one larger, so that several records wait in the queue.
InitWide == InitWith(max_queue_size + 1, DistinctKeys)

\* The jobs at the source share one file name.
InitSameKeys == InitWith(max_queue_size, SameKeys)

\* The values of MAX_QUEUE_SIZE that int() accepts: negative, zero, positive.
Capacities == {-1, 0, max_queue_size}

\* MAX_QUEUE_SIZE is set to any of these.
InitAnyCapacity == \E mqs \in Capacities : InitWith(mqs, DistinctKeys)

\* The first job at the source carries no id.
InitNoId == ProgInitOf(max_queue_size, DistinctKeys, FirstHasNoId) /\ calc = NoCalc

\* Threads that outlive the main thread (not started as daemons).
Running_not_daemon == mainPc \in {"wait", "stopped", "exit1"}

\* The threads run only between their start and the end of the process
\* (they are daemon threads: they die with the main thread).
Running == mainPc = "wait"

-----------------------------------------------------------------------------
(* main() *)

\* A from_env that goes on without a token.
from_env_exits_never(token) == FALSE

\* Config.from_env: if not token: sys.exit(1)
from_env_exits(token) == token = ""

\* Config.from_env: exit(1) when no token is in the environment; otherwise the
\* handlers are installed and the queue is built.
MainFromEnv ==
    /\ mainPc = "from_env"
    /\ mainPc' = IF from_env_exits(cfg.api_token) THEN "exit1" ELSE "build_model"
    /\ UNCHANGED <<SHUTDOWN, job_queue, unfinished, dlPc, dlJob, wPc, wItem,
                   nextId, posts, lastPost, pushes, pops, sigCount, atSignal, pollsAfterSignal, pushedAfterSignal,
                   object_key, has_id, calc, cfg, fate, pollResult, pushOrder, popOrder>>

\* build_model, then the start of the downloader thread and the worker threads;
\* exit(1) when the model fails to load.
MainBuildModel ==
    /\ mainPc = "build_model"
    /\ IF ~build_model_raises(cfg.whisper_model)
       THEN /\ mainPc' = "wait"
            /\ dlPc' = "top"
            /\ wPc' = [w \in Workers |-> "top"]
       ELSE /\ mainPc' = "exit1"
            /\ UNCHANGED <<dlPc, wPc>>
    /\ UNCHANGED <<SHUTDOWN, job_queue, unfinished, dlJob, wItem,
                   nextId, posts, lastPost, pushes, pops, sigCount, atSignal, pollsAfterSignal, pushedAfterSignal,
                   object_key, has_id, calc, cfg, fate, pollResult, pushOrder, popOrder>>

\* A main that does not wait for the workers.
AnyWorkerAlive_unwatched == FALSE

\* any(t.is_alive() for t in workers)
AnyWorkerAlive == \E w \in Workers : wPc[w] # "done"

\* The wait loop ends when no worker thread is alive; main returns and the
\* process ends, whatever the downloader thread is doing.
MainWait ==
    /\ mainPc = "wait"
    /\ ~AnyWorkerAlive
    /\ mainPc' = "stopped"
    /\ UNCHANGED <<SHUTDOWN, job_queue, unfinished, dlPc, dlJob, wPc, wItem,
                   nextId, posts, lastPost, pushes, pops, sigCount, atSignal, pollsAfterSignal, pushedAfterSignal,
                   object_key, has_id, calc, cfg, fate, pollResult, pushOrder, popOrder>>

-----------------------------------------------------------------------------
(* handle_signal *)

\* A handler that clears the flag on the second signal instead of exiting.
handle_signal_toggle ==
    /\ mainPc \in {"build_model", "wait"}
    /\ sigCount < 3
    /\ sigCount' = sigCount + 1
    /\ SHUTDOWN' = ~SHUTDOWN
    /\ atSignal' = IF atSignal.taken THEN atSignal
                   ELSE [taken |-> TRUE,
                         dl_job |-> IF dlPc = "download" THEN dlJob ELSE NoJob]
    /\ UNCHANGED <<mainPc, job_queue, unfinished, dlPc, dlJob, wPc, wItem,
                   nextId, posts, lastPost, pushes, pops, pollsAfterSignal,
                   pushedAfterSignal,
                   object_key, has_id, calc, cfg, fate, pollResult, pushOrder, popOrder>>

\* The handler runs in the main thread once installed (from build_model on).
\* First signal: set the flag. Signal with the flag set: sys.exit(1).
handle_signal ==
    /\ mainPc \in {"build_model", "wait"}
    /\ sigCount' = sigCount + 1
    /\ IF ~SHUTDOWN
       THEN /\ SHUTDOWN' = TRUE
            /\ atSignal' = [taken |-> TRUE,
                            dl_job |-> IF dlPc = "download" THEN dlJob ELSE NoJob]
            /\ UNCHANGED mainPc
       ELSE /\ mainPc' = "exit1"
            /\ UNCHANGED <<SHUTDOWN, atSignal>>
    /\ UNCHANGED <<job_queue, unfinished, dlPc, dlJob, wPc, wItem,
                   nextId, posts, lastPost, pushes, pops, pollsAfterSignal, pushedAfterSignal,
                   object_key, has_id, calc, cfg, fate, pollResult, pushOrder, popOrder>>

-----------------------------------------------------------------------------
(* Result Reporter *)

\* One POST of a success payload to /api/asr/result; ok is whether it was
\* accepted (status 200, no exception). The outcome is only logged.
submit_success(job_id, ok) ==
    /\ posts' = [posts EXCEPT ![job_id] =
                    Append(@, [status |-> "omitted", error |-> "none"])]
    /\ lastPost' = [id |-> job_id, ok |-> ok]

\* One POST of a failure payload to /api/asr/result.
submit_failure(job_id, error_msg, ok) ==
    /\ posts' = [posts EXCEPT ![job_id] =
                    Append(@, [status |-> "asr_failed", error |-> error_msg])]
    /\ lastPost' = [id |-> job_id, ok |-> ok]

-----------------------------------------------------------------------------
(* queue.Queue(maxsize=cfg.max_queue_size) *)

\* Queue.put blocks while the queue is full; maxsize <= 0 means unbounded.
full(qu) == cfg.max_queue_size > 0 /\ Len(qu) >= cfg.max_queue_size

\* A put that adds the record twice.
put_twice(qu, item) == Append(Append(qu, item), item)

\* Queue.put of one item.
put(qu, item) == Append(qu, item)

\* A get that returns the newest item.
get_item_last(qu) == qu[Len(qu)]

\* Queue.get: the item returned and the queue left behind.
get_item(qu) == Head(qu)
\* A get that returns the head without removing it.
get_rest_peek(qu) == qu

get_rest(qu) == Tail(qu)

\* A task_done that leaves the count as it is.
task_done_skipped(n) == n

\* Queue.task_done: one unfinished task less.
task_done(n) == n - 1

-----------------------------------------------------------------------------
(* downloader_loop *)

\* A loop that never tests the flag.
while_true(flag) == TRUE

\* The loop condition of downloader_loop: while not SHUTDOWN.
while_not_shutdown(flag) == ~flag

\* The test of the loop condition at the top of an iteration.
DownloaderTop ==
    /\ Running /\ dlPc = "top"
    /\ dlPc' = IF while_not_shutdown(SHUTDOWN) THEN "qsize" ELSE "done"
    /\ UNCHANGED <<SHUTDOWN, mainPc, job_queue, unfinished, dlJob, wPc, wItem,
                   nextId, posts, lastPost, pushes, pops, sigCount, atSignal, pollsAfterSignal, pushedAfterSignal,
                   object_key, has_id, calc, cfg, fate, pollResult, pushOrder, popOrder>>

\* A loop without the backpressure test.
at_capacity_never(qu) == FALSE

\* A backpressure test that lets the queue fill before it holds back.
at_capacity_above(qu) == Len(qu) > cfg.max_queue_size

\* The backpressure test: q.qsize() >= cfg.max_queue_size.
at_capacity(qu) == Len(qu) >= cfg.max_queue_size

\* Backpressure: if q.qsize() >= cfg.max_queue_size: sleep(0.2); continue
DownloaderQsize ==
    /\ Running /\ dlPc = "qsize"
    /\ dlPc' = IF at_capacity(job_queue) THEN "sleep_full" ELSE "poll"
    /\ UNCHANGED <<SHUTDOWN, mainPc, job_queue, unfinished, dlJob, wPc, wItem,
                   nextId, posts, lastPost, pushes, pops, sigCount, atSignal, pollsAfterSignal, pushedAfterSignal,
                   object_key, has_id, calc, cfg, fate, pollResult, pushOrder, popOrder>>

\* time.sleep(...) of the backpressure branch, of the no-job branch and of the
\* except branch, each followed by the next iteration.
DownloaderSleep ==
    /\ Running /\ dlPc \in {"sleep_full", "sleep_idle"}
    /\ dlPc' = "top"
    /\ pollResult' = "none"
    /\ UNCHANGED <<SHUTDOWN, mainPc, job_queue, unfinished, dlJob, wPc, wItem,
                   nextId, posts, lastPost, pushes, pops, sigCount, atSignal, pollsAfterSignal, pushedAfterSignal,
                   object_key, has_id, calc, cfg, fate, pushOrder, popOrder>>

\* What a call of the Job Source can come to: a job, a 200 answer without a
\* job, or a failed call (non-200 status, network or parse error).
PollResponses == {"job", "no_job", "failed"}

\* http_post_next_job: the job of a 200 answer that carries one, else None.
http_post_next_job(resp, id) == IF resp = "job" THEN id ELSE NoJob

\* A loop without the early continue: it goes on to the download whatever
\* the poll returned.
after_poll_fetch(job) == "download"

\* A loop that a poll without a job ends.
after_poll_fatal(job) == IF job = NoJob THEN "done" ELSE "download"

\* if not job: time.sleep(cfg.idle_sleep_sec); continue
after_poll(job) == IF job = NoJob THEN "sleep_idle" ELSE "download"

\* job = http_post_next_job(cfg): the source hands out its next job, or the
\* call yields None (no job, non-200, network or parse error).
DownloaderPoll ==
    /\ Running /\ dlPc = "poll"
    /\ pollsAfterSignal' = IF SHUTDOWN THEN pollsAfterSignal + 1 ELSE pollsAfterSignal
    /\ \E resp \in PollResponses :
          /\ resp = "job" => nextId <= MaxJobs
          /\ pollResult' = resp
          /\ dlJob' = http_post_next_job(resp, nextId)
          /\ nextId' = IF resp = "job" THEN nextId + 1 ELSE nextId
          /\ dlPc' = after_poll(dlJob')
    /\ UNCHANGED <<SHUTDOWN, mainPc, job_queue, unfinished, wPc, wItem,
                   posts, lastPost, pushes, pops, sigCount, atSignal, pushedAfterSignal,
                   object_key, has_id, calc, cfg, fate, pushOrder, popOrder>>

\* path = download_audio(job, cfg): a path, None (missing audio_url or a failed
\* GET/write), or an exception raised before its try block (makedirs, the
\* basename of a malformed object_key), which the loop's except catches.
DownloadOutcomes == {"path", "none", "raised"}

\* A loop that enqueues the record although download_audio returned None.
after_download_enqueue(outcome) ==
    CASE outcome = "path" -> "put"
      [] outcome = "none" -> "put"
      [] outcome = "raised" -> "sleep_idle"

\* A loop without the try/except around its body: the exception ends it.
after_download_escape(outcome) ==
    CASE outcome = "path" -> "put"
      [] outcome = "none" -> "submit_failure"
      [] outcome = "raised" -> "done"

\* A loop whose except branch goes on to the next iteration without sleeping.
after_download_no_sleep(outcome) ==
    CASE outcome = "path" -> "put"
      [] outcome = "none" -> "submit_failure"
      [] outcome = "raised" -> "top"

\* Where the iteration goes after download_audio: on to q.put, to the
\* "if not path" branch, or to the except branch of the loop.
after_download(outcome) ==
    CASE outcome = "path" -> "put"
      [] outcome = "none" -> "submit_failure"
      [] outcome = "raised" -> "sleep_idle"

\* How the download of a job ended, as recorded in fate.
download_fate(outcome) ==
    CASE outcome = "path" -> "fetched"
      [] outcome = "none" -> "download_failed"
      [] outcome = "raised" -> "download_raised"

DownloaderDownload ==
    /\ Running /\ dlPc = "download"
    /\ \E outcome \in DownloadOutcomes :
          /\ dlPc' = after_download(outcome)
          /\ dlJob' = IF outcome = "raised" THEN NoJob ELSE dlJob
          /\ fate' = [fate EXCEPT ![dlJob] = download_fate(outcome)]
    /\ UNCHANGED <<SHUTDOWN, mainPc, job_queue, unfinished, wPc, wItem,
                   nextId, posts, lastPost, pushes, pops, sigCount, atSignal, pollsAfterSignal, pushedAfterSignal,
                   object_key, has_id, calc, cfg, pollResult, pushOrder, popOrder>>

\* A branch that reports whatever job.get("id") returned.
job_id_is_anything(job) == TRUE

\* job_id = job.get("id"); if job_id is not None
job_id_is_not_None(job) == has_id[job]

\* if not path: if job_id is not None: submit_failure(job_id, cfg,
\* "download_failed"); continue
DownloaderSubmitFailure ==
    /\ Running /\ dlPc = "submit_failure"
    /\ IF job_id_is_not_None(dlJob)
       THEN \E ok \in BOOLEAN : submit_failure(dlJob, "download_failed", ok)
       ELSE UNCHANGED <<posts, lastPost>>
    /\ dlPc' = "top"
    /\ dlJob' = NoJob
    /\ pollResult' = "none"
    /\ UNCHANGED <<SHUTDOWN, mainPc, job_queue, unfinished, wPc, wItem,
                   nextId, pushes, pops, sigCount, atSignal, pollsAfterSignal, pushedAfterSignal,
                   object_key, has_id, calc, cfg, fate, pushOrder, popOrder>>

\* q.put(record): blocks while the queue is full.
DownloaderPut ==
    /\ Running /\ dlPc = "put"
    /\ ~full(job_queue)
    /\ job_queue' = put(job_queue, QueuedJob(dlJob))
    /\ unfinished' = unfinished + 1
    /\ pushes' = [pushes EXCEPT ![dlJob] = @ + 1]
    /\ pushedAfterSignal' = IF SHUTDOWN THEN pushedAfterSignal \cup {dlJob}
                                        ELSE pushedAfterSignal
    /\ pushOrder' = Append(pushOrder, dlJob)
    /\ dlPc' = "top"
    /\ dlJob' = NoJob
    /\ pollResult' = "none"
    /\ UNCHANGED <<SHUTDOWN, mainPc, wPc, wItem,
                   nextId, posts, lastPost, pops, sigCount, atSignal, pollsAfterSignal,
                   object_key, has_id, calc, cfg, fate, popOrder>>

downloader_loop ==
    \/ DownloaderTop
    \/ DownloaderQsize
    \/ DownloaderSleep
    \/ DownloaderPoll
    \/ DownloaderDownload
    \/ DownloaderSubmitFailure
    \/ DownloaderPut

-----------------------------------------------------------------------------
(* worker_loop *)

\* if SHUTDOWN and q.empty(): break
worker_exit(flag, qu) == flag /\ qu = <<>>

\* An except branch that swallows the exception without reporting.
after_transcribe_swallow(raised) == IF raised THEN "task_done" ELSE "submit_success"

\* A worker without the except branch: the exception ends its thread.
after_transcribe_exit(raised) == IF raised THEN "done" ELSE "submit_success"

\* The handler that runs after transcribe: submit_success when it returned,
\* the except branch (submit_failure) when it raised.
after_transcribe(raised) == IF raised THEN "submit_failure" ELSE "submit_success"

\* A submit_success whose exception reaches the except branch.
after_submit_success_raises == "submit_failure"

\* After submit_success only the finally block is left.
after_submit_success == "task_done"

WorkerTop(w) ==
    /\ Running /\ wPc[w] = "top"
    /\ wPc' = [wPc EXCEPT ![w] = IF worker_exit(SHUTDOWN, job_queue) THEN "done" ELSE "get"]
    /\ UNCHANGED <<SHUTDOWN, mainPc, job_queue, unfinished, dlPc, dlJob, wItem,
                   nextId, posts, lastPost, pushes, pops, sigCount, atSignal, pollsAfterSignal, pushedAfterSignal,
                   object_key, has_id, calc, cfg, fate, pollResult, pushOrder, popOrder>>

\* item = q.get(timeout=0.5): the head of the queue, or queue.Empty when the
\* queue is still empty at the end of the timeout.
WorkerGet(w) ==
    /\ Running /\ wPc[w] = "get"
    /\ IF job_queue # <<>>
       THEN /\ wItem' = [wItem EXCEPT ![w] = get_item(job_queue)]
            /\ job_queue' = get_rest(job_queue)
            /\ pops' = [pops EXCEPT ![get_item(job_queue).id] = @ + 1]
            /\ popOrder' = Append(popOrder, get_item(job_queue).id)
            /\ wPc' = [wPc EXCEPT ![w] = "transcribe"]
       ELSE /\ wPc' = [wPc EXCEPT ![w] = "empty"]
            /\ UNCHANGED <<wItem, job_queue, pops, popOrder>>
    /\ UNCHANGED <<SHUTDOWN, mainPc, unfinished, dlPc, dlJob,
                   nextId, posts, lastPost, pushes, sigCount, atSignal, pollsAfterSignal, pushedAfterSignal,
                   object_key, has_id, calc, cfg, fate, pollResult, pushOrder>>

\* except queue.Empty: if SHUTDOWN: break; continue
WorkerEmpty(w) ==
    /\ Running /\ wPc[w] = "empty"
    /\ wPc' = [wPc EXCEPT ![w] = IF SHUTDOWN THEN "done" ELSE "top"]
    /\ UNCHANGED <<SHUTDOWN, mainPc, job_queue, unfinished, dlPc, dlJob, wItem,
                   nextId, posts, lastPost, pushes, pops, sigCount, atSignal, pollsAfterSignal, pushedAfterSignal,
                   object_key, has_id, calc, cfg, fate, pollResult, pushOrder, popOrder>>

\* metrics = transcribe(path, cfg, model): returns or raises.
WorkerTranscribe(w) ==
    /\ Running /\ wPc[w] = "transcribe"
    /\ \E raised \in BOOLEAN :
          /\ wPc' = [wPc EXCEPT ![w] = after_transcribe(raised)]
          /\ fate' = [fate EXCEPT ![wItem[w].id] =
                          IF raised THEN "transcribe_raised" ELSE "transcribed"]
    /\ UNCHANGED <<SHUTDOWN, mainPc, job_queue, unfinished, dlPc, dlJob, wItem,
                   nextId, posts, lastPost, pushes, pops, sigCount, atSignal, pollsAfterSignal, pushedAfterSignal,
                   object_key, has_id, calc, cfg, pollResult, pushOrder, popOrder>>

\* A worker that repeats the POST until it is accepted.
WorkerSubmitSuccess_retry(w) ==
    /\ Running /\ wPc[w] = "submit_success"
    /\ \E ok \in BOOLEAN :
          /\ submit_success(wItem[w].id, ok)
          /\ wPc' = [wPc EXCEPT ![w] = IF ok THEN "task_done" ELSE "submit_success"]
    /\ UNCHANGED <<SHUTDOWN, mainPc, job_queue, unfinished, dlPc, dlJob, wItem,
                   nextId, pushes, pops, sigCount, atSignal, pollsAfterSignal, pushedAfterSignal,
                   object_key, has_id, calc, cfg, fate, pollResult, pushOrder, popOrder>>

\* submit_success(job_id, cfg, cfg.whisper_model, metrics)
WorkerSubmitSuccess(w) ==
    /\ Running /\ wPc[w] = "submit_success"
    /\ \E ok \in BOOLEAN : submit_success(wItem[w].id, ok)
    /\ wPc' = [wPc EXCEPT ![w] = after_submit_success]
    /\ UNCHANGED <<SHUTDOWN, mainPc, job_queue, unfinished, dlPc, dlJob, wItem,
                   nextId, pushes, pops, sigCount, atSignal, pollsAfterSignal, pushedAfterSignal,
                   object_key, has_id, calc, cfg, fate, pollResult, pushOrder, popOrder>>

\* except Exception as e: submit_failure(job_id, cfg, f"transcription_failed: {e}")
WorkerSubmitFailure(w) ==
    /\ Running /\ wPc[w] = "submit_failure"
    /\ \E ok \in BOOLEAN : submit_failure(wItem[w].id, "transcription_failed", ok)
    /\ wPc' = [wPc EXCEPT ![w] = "task_done"]
    /\ UNCHANGED <<SHUTDOWN, mainPc, job_queue, unfinished, dlPc, dlJob, wItem,
                   nextId, pushes, pops, sigCount, atSignal, pollsAfterSignal, pushedAfterSignal,
                   object_key, has_id, calc, cfg, fate, pollResult, pushOrder, popOrder>>

\* finally: q.task_done()
WorkerTaskDone(w) ==
    /\ Running /\ wPc[w] = "task_done"
    /\ unfinished' = task_done(unfinished)
    /\ wItem' = [wItem EXCEPT ![w] = NoItem]
    /\ wPc' = [wPc EXCEPT ![w] = "top"]
    /\ UNCHANGED <<SHUTDOWN, mainPc, job_queue, dlPc, dlJob,
                   nextId, posts, lastPost, pushes, pops, sigCount, atSignal, pollsAfterSignal, pushedAfterSignal,
                   object_key, has_id, calc, cfg, fate, pollResult, pushOrder, popOrder>>

worker_loop(w) ==
    \/ WorkerTop(w)
    \/ WorkerGet(w)
    \/ WorkerEmpty(w)
    \/ WorkerTranscribe(w)
    \/ WorkerSubmitSuccess(w)
    \/ WorkerSubmitFailure(w)
    \/ WorkerTaskDone(w)

-----------------------------------------------------------------------------

Next ==
    \/ MainFromEnv
    \/ MainBuildModel
    \/ MainWait
    \/ handle_signal
    \/ downloader_loop
    \/ \E w \in Workers : worker_loop(w)

Spec == Init /\ [][Next]_vars

\* The same process when the jobs share one file name.
SameKeysSpec == InitSameKeys /\ [][Next]_vars

\* The same process with the larger queue.
WideSpec == InitWide /\ [][Next]_vars

\* The same process with MAX_QUEUE_SIZE negative, zero or positive.
AnyCapacitySpec == InitAnyCapacity /\ [][Next]_vars

\* The same process with a source whose first job carries no id.
NoIdSpec == InitNoId /\ [][Next]_vars

\* The threads are scheduled fairly and every call returns; signals are up to
\* the environment.
FairSpec ==
    /\ Spec
    /\ WF_vars(MainFromEnv \/ MainBuildModel \/ MainWait)
    /\ WF_vars(downloader_loop)
    /\ \A w \in Workers : WF_vars(worker_loop(w))

-----------------------------------------------------------------------------
(* Claims *)

\* Number of result POSTs issued for job i.
Attempts(i) == Len(posts[i])

\* C1: every pulled job gets at most one result POST in total (one success,
\* or one failure, or none), so no id is reported twice and never with both a
\* success and a failure.
C1_AtMostOneReport == \A i \in JobIds : Attempts(i) <= 1

\* C1 witness: one job reported as a success by a worker and another reported
\* as a failure.
C1_Witness ==
    \E i, j \in JobIds :
        /\ i # j
        /\ Attempts(i) = 1 /\ posts[i][1].status = "omitted"
        /\ Attempts(j) = 1 /\ posts[j][1].status = "asr_failed"

\* C2: the job queue never holds more than cfg.max_queue_size items.
C2_QueueBounded == Len(job_queue) <= cfg.max_queue_size

\* C2 witness: the queue is at capacity while the source has a further job and
\* the downloader is throttled by the backpressure test.
C2_Witness ==
    /\ Len(job_queue) = cfg.max_queue_size
    /\ dlPc = "sleep_full"
    /\ nextId <= MaxJobs

\* C3: a pulled job is pushed at most once, a queued record is returned by
\* q.get at most once, and no two workers hold the same record.
C3_SingleConsumer ==
    /\ \A i \in JobIds : pushes[i] <= 1 /\ pops[i] <= pushes[i]
    /\ \A v, w \in Workers :
          (v # w /\ wItem[v] # NoItem) => wItem[v] # wItem[w]
    /\ \A i \in JobIds : \A k, l \in 1..Len(job_queue) :
          (job_queue[k].id = i /\ job_queue[l].id = i) => k = l

\* C3 witness: both workers hold a record at the same time.
C3_Witness ==
    /\ \A w \in Workers : wItem[w] # NoItem /\ wPc[w] = "transcribe"
    /\ \A i \in JobIds : pops[i] = 1

\* Some worker holds job i at position pc of its loop.
Held(i, pc) == \E w \in Workers : wItem[w].id = i /\ wPc[w] = pc

\* The process was ended by sys.exit(1).
Killed == mainPc = "exit1"

\* C4: under fair scheduling and unless a second signal kills the process, a
\* worker that has dequeued a job goes on to its finally block, and by then
\* the job has got exactly one report attempt: a success POST when transcribe
\* returned, a "transcription_failed" POST when it raised. Whether or not the
\* POST is accepted, the job still has exactly one attempt once its worker has
\* let go of it.
C4_DequeuedLeadsToOneReport ==
    /\ \A w \in Workers :
          (wPc[w] = "transcribe") ~> (Killed \/ wPc[w] = "task_done")
    /\ [](\A w \in Workers :
             wPc[w] = "task_done" => Attempts(wItem[w].id) = 1)
    /\ [][\A i \in JobIds :
            /\ (Held(i, "submit_success") /\ Attempts(i)' # Attempts(i))
                  => posts'[i] = <<[status |-> "omitted", error |-> "none"]>>
            /\ (Held(i, "submit_failure") /\ Attempts(i)' # Attempts(i))
                  => posts'[i] = <<[status |-> "asr_failed",
                                    error |-> "transcription_failed"]>>]_vars
    /\ [](\A i \in JobIds :
             (pops[i] = 1 /\ \A w \in Workers : wItem[w].id # i) => Attempts(i) = 1)

\* C4 witness: a dequeued job whose only POST was rejected, and whose worker
\* has gone on to another iteration.
C4_Witness ==
    \E i \in JobIds :
        /\ pops[i] = 1 /\ Attempts(i) = 1 /\ lastPost.id = i /\ ~lastPost.ok
        /\ \A w \in Workers : wItem[w].id # i
        /\ \E w \in Workers : wPc[w] = "get"

\* C5 as stated: once the flag is set the downloader issues no further job
\* request, wherever it was in its iteration.
C5_NoPollAfterSignal == pollsAfterSignal = 0

\* C5 amended: once the flag is set the downloader issues at most one further
\* job request, the one of the iteration whose loop test had passed before the
\* flag was set; it never heads for a second one.
C5_AtMostOnePollAfterSignal ==
    /\ pollsAfterSignal <= 1
    /\ (SHUTDOWN /\ dlPc \in {"qsize", "poll"}) => pollsAfterSignal = 0

\* C5 witness: the downloader polled once with the flag set and then left its
\* loop at the next loop test.
C5_Witness == pollsAfterSignal = 1 /\ dlPc = "done"

AllWorkersDone == \A w \in Workers : wPc[w] = "done"

\* C6: when every worker has exited, each job that was put on the queue before
\* the flag was set has got its report attempt.
C6_InFlightAtSignalReported ==
    AllWorkersDone =>
        \A i \in JobIds :
            (pushes[i] = 1 /\ i \notin pushedAfterSignal) => Attempts(i) = 1

\* C7: when the process has stopped after a single signal, the job whose
\* audio was being fetched when the flag was set has got its report attempt.
C7_DownloadAtSignalReported ==
    (mainPc = "stopped" /\ atSignal.dl_job # NoJob)
        => Attempts(atSignal.dl_job) = 1

\* C8: a signal received with the flag already set ends the process with
\* status 1, and from then on nothing changes: no POST, no poll, no put, no
\* get, no transcription.
C8_SecondSignalKills ==
    /\ [](sigCount >= 2 => Killed)
    /\ [][Killed => UNCHANGED vars]_vars

\* C8 witness: the process was killed by the second signal while one job was
\* queued and another was held by a worker, neither of them reported.
C8_Witness ==
    /\ sigCount = 2 /\ Killed
    /\ job_queue # <<>>
    /\ \E w \in Workers : wItem[w] # NoItem /\ Attempts(wItem[w].id) = 0

\* C9: under fair scheduling, once the flag is set and unless a second signal
\* kills the process, the downloader loop exits, every worker loop exits and
\* main returns.
C9_ProcessStops ==
    SHUTDOWN ~> (Killed \/ (dlPc = "done" /\ AllWorkersDone /\ mainPc = "stopped"))

\* C10: the flag starts false, changes only in a step of handle_signal, and
\* only from false to true.
C10_FlagMonotonic ==
    /\ SHUTDOWN = FALSE
    /\ [][SHUTDOWN' # SHUTDOWN =>
             (~SHUTDOWN /\ SHUTDOWN' /\ sigCount' = sigCount + 1)]_vars

\* C10 witness: the flag is set, both loops have observed it and ended, and a
\* second signal has been handled without clearing it.
C10_Witness ==
    /\ SHUTDOWN /\ sigCount = 2
    /\ dlPc = "done" /\ AllWorkersDone

\* C11: whenever the downloader is about to request a job, the queue holds
\* fewer than cfg.max_queue_size items, although the size test and the request
\* are separate steps that the workers interleave with.
C11_PollBelowCapacity == dlPc = "poll" => Len(job_queue) < cfg.max_queue_size

\* The downloader is about to poll again after the queue had been full: the
\* one record it pushed was taken by a worker that still holds it.
C11_Witness ==
    /\ dlPc = "poll"
    /\ pushes[1] = 1
    /\ job_queue = <<>>
    /\ \E w \in Workers : wItem[w].id = 1 /\ wPc[w] = "transcribe"

\* The downloader's part of the state that a fetch, an enqueue or a report
\* would change is left as it is by this step.
NoFetchEnqueueReport ==
    /\ job_queue' = job_queue
    /\ pushes' = pushes
    /\ posts' = posts
    /\ fate' = fate
    /\ dlJob' = NoJob
    /\ dlPc' \in {"sleep_idle", "top"}

\* C12 as stated: from a poll that returned no job until the iteration ends,
\* the queue and the reports are unchanged, whoever takes the step.
C12_QueueAndReportsFrozen ==
    [][(pollResult' = "no_job" \/ pollResult = "no_job")
          => (job_queue' = job_queue /\ posts' = posts /\ pushes' = pushes
              /\ dlPc' \notin {"download", "put", "submit_failure"})]_vars

\* C12: in an iteration in which the source returns no job, the steps of the
\* downloader (the poll itself and what follows it until the iteration ends)
\* fetch nothing, enqueue nothing and report nothing; workers may dequeue and
\* report meanwhile.
C12_NoJobIterationIdle ==
    [][((dlPc = "poll" /\ pollResult' = "no_job")
        \/ (pollResult = "no_job" /\ dlPc' # dlPc))
          => NoFetchEnqueueReport]_vars

\* The downloader sleeps after a poll without a job while a worker is about to
\* report the job it holds.
C12_Witness ==
    /\ pollResult = "no_job"
    /\ dlPc = "sleep_idle"
    /\ \E w \in Workers : wPc[w] = "submit_success"

DownloadFailedPost == [status |-> "asr_failed", error |-> "download_failed"]

\* C13: a job whose download_audio returned None is never pushed, never taken
\* or held by a worker, and has exactly one report, the download_failed one,
\* as soon as the downloader has taken the step after the download; until
\* that step it has none.
C13_DownloadFailedReportedOnce ==
    \A i \in JobIds :
        fate[i] = "download_failed" =>
            /\ pushes[i] = 0
            /\ pops[i] = 0
            /\ \A w \in Workers : wItem[w].id # i
            /\ \A k \in 1..Len(job_queue) : job_queue[k].id # i
            /\ \/ posts[i] = <<DownloadFailedPost>>
               \/ posts[i] = <<>> /\ dlPc = "submit_failure" /\ dlJob = i

\* A failed download was reported and the downloader went on to the next poll.
C13_Witness ==
    /\ \E i \in JobIds : fate[i] = "download_failed" /\ Attempts(i) = 1
    /\ dlPc = "poll"
    /\ nextId <= MaxJobs

TranscriptionFailedPost == [status |-> "asr_failed", error |-> "transcription_failed"]

\* C14: a job whose transcription raised gets one report, a failure whose error
\* is transcription_failed, and no success report; the worker then runs
\* q.task_done() and is back at the top of its loop.
C14_TranscribeRaiseReported ==
    /\ [](\A i \in JobIds :
            fate[i] = "transcribe_raised" =>
                \/ posts[i] = <<TranscriptionFailedPost>>
                \/ posts[i] = <<>> /\ Held(i, "submit_failure"))
    /\ [][\A w \in Workers :
            /\ (wPc[w] = "submit_failure" /\ wPc'[w] # wPc[w]) => wPc'[w] = "task_done"
            /\ (wPc[w] = "task_done" /\ wPc'[w] # wPc[w]) => wPc'[w] = "top"
            /\ (wPc[w] = "top" /\ wPc'[w] # wPc[w] /\ job_queue # <<>>) => wPc'[w] = "get"]_vars

\* A transcription raised and was reported, and then the next job was taken
\* off the queue.
C14_Witness ==
    /\ fate[1] = "transcribe_raised"
    /\ Attempts(1) = 1
    /\ popOrder = <<1, 2>>
    /\ \E w \in Workers : wItem[w].id = 2 /\ wPc[w] = "transcribe"

\* The workers that hold an item: between q.get and q.task_done.
InHand == {w \in Workers : wItem[w] # NoItem}

\* C15: the unfinished-task count of the queue equals the items queued plus
\* the items held by workers (one task_done per item taken, none for a
\* timed-out get), so it is never negative.
C15_UnfinishedCount ==
    /\ unfinished = Len(job_queue) + Cardinality(InHand)
    /\ \A w \in Workers : wPc[w] \in {"empty", "top", "get", "done"} => wItem[w] = NoItem

\* One get timed out, one item is about to be marked done, one waits.
C15_Witness ==
    /\ unfinished = 2
    /\ Len(job_queue) = 1
    /\ \E w, v \in Workers : wPc[w] = "empty" /\ wPc[v] = "task_done"

\* s is a prefix of t.
IsPrefix(s, t) == Len(s) <= Len(t) /\ \A k \in 1..Len(s) : s[k] = t[k]

\* C16: jobs leave the queue in the order they were pushed: the ids returned by
\* q.get so far are a prefix of the ids accepted by q.put, and the queue holds
\* the rest in push order.
C16_Fifo ==
    /\ IsPrefix(popOrder, pushOrder)
    /\ Len(pushOrder) = Len(popOrder) + Len(job_queue)
    /\ \A k \in 1..Len(job_queue) : job_queue[k].id = pushOrder[Len(popOrder) + k]

\* Both jobs were taken in push order, and the second one is reported while
\* the first one is not yet.
C16_Witness ==
    /\ pushOrder = <<1, 2>>
    /\ popOrder = <<1, 2>>
    /\ Attempts(2) = 1
    /\ Attempts(1) = 0

\* C17 as stated: a worker exits only with the flag set, holding no job and
\* leaving the queue empty, and while the flag is clear a timed-out get is
\* followed by the next attempt.
C17_ExitOnlyWhenQueueEmpty ==
    [][\A w \in Workers :
          /\ (wPc'[w] = "done" /\ wPc[w] # "done")
                => (SHUTDOWN /\ job_queue = <<>> /\ wItem[w] = NoItem)
          /\ (wPc[w] = "empty" /\ ~SHUTDOWN /\ wPc'[w] # wPc[w])
                => wPc'[w] = "top"]_vars

\* C18: a result POST that is not accepted is not repeated, its job is not
\* pushed, taken or transcribed again, and whoever posts goes on: the worker to
\* q.task_done(), the downloader to its next iteration.
C18_FailedPostSwallowed ==
    /\ [](\A i \in JobIds : Attempts(i) <= 1 /\ pops[i] <= 1)
    /\ [][\A i \in JobIds :
            (lastPost.id = i /\ ~lastPost.ok)
               => /\ posts'[i] = posts[i]
                  /\ pushes'[i] = pushes[i]
                  /\ pops'[i] = pops[i]
                  /\ fate'[i] = fate[i]]_vars
    /\ [][posts' # posts
            => \/ \E w \in Workers : /\ wPc[w] \in {"submit_success", "submit_failure"}
                                     /\ wPc'[w] = "task_done"
               \/ dlPc = "submit_failure" /\ dlPc' = "top"]_vars

\* The report of a failed download was not accepted, and the downloader is
\* fetching the next job.
C18_Witness ==
    /\ ~lastPost.ok
    /\ lastPost.id = 1
    /\ fate[1] = "download_failed"
    /\ Attempts(1) = 1
    /\ dlPc = "download"
    /\ dlJob = 2

\* C19: a failed call of the Job Source leaves the downloader with no job; the
\* iteration fetches nothing, enqueues nothing and reports nothing, sleeps,
\* and the next loop test goes on to the next poll unless the flag is set.
C19_FailedPollNotFatal ==
    /\ [](pollResult = "failed" => (dlPc = "sleep_idle" /\ dlJob = NoJob))
    /\ [][((dlPc = "poll" /\ pollResult' = "failed")
            \/ (pollResult = "failed" /\ dlPc' # dlPc))
              => NoFetchEnqueueReport]_vars
    /\ [][(dlPc = "top" /\ dlPc' # dlPc)
              => dlPc' = IF SHUTDOWN THEN "done" ELSE "qsize"]_vars

\* The source failed after it had handed out a job; the downloader sleeps and
\* the flag is clear.
C19_Witness ==
    /\ pollResult = "failed"
    /\ dlPc = "sleep_idle"
    /\ ~SHUTDOWN
    /\ nextId = 2

\* C20: the downloader loop ends only at its loop test with the flag set; a
\* worker loop ends only at its two shutdown tests (loop top with the flag set
\* and the queue empty, or a timed-out get with the flag set).
C20_LoopsEndOnlyByShutdownTest ==
    [][/\ (dlPc' = "done" /\ dlPc # "done") => (dlPc = "top" /\ SHUTDOWN)
       /\ \A w \in Workers :
            (wPc'[w] = "done" /\ wPc[w] # "done")
               => \/ wPc[w] = "top" /\ SHUTDOWN /\ job_queue = <<>>
                  \/ wPc[w] = "empty" /\ SHUTDOWN]_vars

\* A download raised, a transcription raised, its report was not accepted and
\* the last poll failed: every loop is still running.
C20_Witness ==
    /\ fate[1] = "download_raised"
    /\ fate[2] = "transcribe_raised"
    /\ ~lastPost.ok
    /\ lastPost.id = 2
    /\ pollResult = "failed"
    /\ dlPc = "sleep_idle"
    /\ \A w \in Workers : wPc[w] \notin {"done", "not_started"}
    /\ mainPc = "wait"

\* The environment makes the startup fail: no token, or a model that does not load.
StartupFails == cfg.api_token = "" \/ build_model_raises(cfg.whisper_model)

\* C21: without a token or with a model that fails to load, main never gets
\* past its startup: it is at from_env, at build_model or has exited with
\* status 1, no thread was started, no job was requested and nothing was posted.
C21_StartupFailureStartsNothing ==
    StartupFails =>
        /\ mainPc \in {"from_env", "build_model", "exit1"}
        /\ cfg.api_token = "" => mainPc # "build_model"
        /\ dlPc = "not_started"
        /\ \A w \in Workers : wPc[w] = "not_started"
        /\ nextId = 1
        /\ pollResult = "none"
        /\ \A i \in JobIds : posts[i] = <<>>

\* The token is there, the model failed to load and the process has exited
\* without any signal.
C21_Witness ==
    /\ cfg.api_token = "secret"
    /\ build_model_raises(cfg.whisper_model)
    /\ mainPc = "exit1"
    /\ sigCount = 0

-----------------------------------------------------------------------------
(* The functions of the worker, one call at a time: calc holds the arguments *)
(* of a call and, once it has returned, its result.                          *)

\* The process as it stands while a single call is looked at.
CalcProgInit ==
    /\ ProgInit(max_queue_size, DistinctKeys)
    /\ cfg.api_token = "secret"
    /\ cfg.whisper_model = "small"

\* submit_failure: the slice bound of error_msg[:500].
ErrorLimit == 500

\* Longest exception text of a failed transcription that is looked at.
MaxExcLen == 780

\* The characters lo..hi of an exception text: a, b, c in turn.
RECURSIVE exc_chars(_, _)
exc_chars(lo, hi) ==
    IF lo > hi THEN ""
    ELSE IF lo = hi THEN (CASE lo % 3 = 0 -> "a" [] lo % 3 = 1 -> "b" [] OTHER -> "c")
    ELSE exc_chars(lo, (lo + hi) \div 2) \o exc_chars((lo + hi) \div 2 + 1, hi)

\* An exception text of n characters.
exc_text(n) == exc_chars(1, n)

\* worker_loop: f"transcription_failed: {e}"
transcription_failed_msg(e) == "transcription_failed: " \o e

\* A submit_failure that posts the message as it is.
trim_none(error_msg) == error_msg

\* error_msg[:500]
trim(error_msg) ==
    IF Len(error_msg) <= ErrorLimit THEN error_msg ELSE SubSeq(error_msg, 1, ErrorLimit)

\* The payload of submit_failure.
submit_failure_payload(job_id, error_msg) ==
    [id |-> job_id, status |-> "asr_failed", error |-> trim(error_msg)]

\* The calls of submit_failure: by the downloader with "download_failed", by a
\* worker with the text of the exception.
FailureCalls ==
    {[op |-> "submit_failure", kind |-> "download", job_id |-> 1,
      error_msg |-> "download_failed", done |-> FALSE]}
    \cup {[op |-> "submit_failure", kind |-> "transcription", job_id |-> 1,
           error_msg |-> transcription_failed_msg(exc_text(n)), done |-> FALSE]
            : n \in 0..MaxExcLen}

\* submit_failure builds its payload.
CalcSubmitFailure ==
    /\ calc.op = "submit_failure" /\ ~calc.done
    /\ calc' = [op |-> "submit_failure", kind |-> calc.kind, job_id |-> calc.job_id,
                error_msg |-> calc.error_msg, done |-> TRUE,
                payload |-> submit_failure_payload(calc.job_id, calc.error_msg)]
    /\ UNCHANGED progVars

Min(a, b) == IF a <= b THEN a ELSE b

\* C22: the error posted by submit_failure has length min(L, 500) and is the
\* first 500 characters of the message; for a transcription failure that is
\* the string "transcription_failed: <exception text>", so the posted error
\* has at most 500 characters and begins with the category.
C22_ErrorTrimmed ==
    (calc.op = "submit_failure" /\ calc.done) =>
        LET e == calc.payload.error
            m == calc.error_msg
        IN  /\ Len(e) = Min(Len(m), 500)
            /\ \A k \in 1..Len(e) : SubSeq(e, k, k) = SubSeq(m, k, k)
            /\ calc.kind = "transcription" =>
                  /\ Len(e) <= 500
                  /\ SubSeq(e, 1, 22) = "transcription_failed: "

\* A message of 800 characters was posted as 500 characters.
C22_Witness ==
    /\ calc.op = "submit_failure" /\ calc.done
    /\ Len(calc.error_msg) = 800
    /\ Len(calc.payload.error) = 500

-----------------------------------------------------------------------------
(* transcribe: the metrics computed from the segments *)

\* An attribute that is None, and one that has the value v.
None == {}
Some(v) == {v}
\* The value of an attribute that is not None.
the(x) == CHOOSE v \in x : TRUE

\* Most segments of one transcription that are looked at.
MaxSegments == 3

\* seg.start and seg.end in seconds: lengths 2 and 4, and a segment that ends
\* before it starts.
Spans == {<<0, 2>>, <<2, 6>>, <<4, 3>>}
\* seg.avg_logprob in tenths, or None.
LogProbs == {None, Some(-1), Some(-3)}
\* seg.compression_ratio, or None.
CompressionRatios == {None, Some(2), Some(4)}
\* seg.no_speech_prob in tenths, or None.
NoSpeechProbs == {None, Some(1), Some(5)}
\* info.duration in seconds, or None.
Durations == {None, Some(0), Some(10)}

\* seg.text of the segment with a given span.
SegmentText(sp) == IF sp[1] = 0 THEN " tower" ELSE " cleared to land "

Segment(sp, lp, cr, ns) ==
    [start |-> sp[1], end |-> sp[2], text |-> SegmentText(sp), avg_logprob |-> lp,
     compression_ratio |-> cr, no_speech_prob |-> ns]

\* The segments the engine yields: each attribute takes all its values while
\* the others are held.
SegmentValues ==
    {Segment(sp, Some(-1), Some(2), Some(1)) : sp \in Spans}
    \cup {Segment(<<0, 2>>, lp, None, None) : lp \in LogProbs}
    \cup {Segment(<<0, 2>>, None, cr, Some(5)) : cr \in CompressionRatios}
    \cup {Segment(<<2, 6>>, Some(-3), Some(4), ns) : ns \in NoSpeechProbs}

SegmentLists == UNION {[1..n -> SegmentValues] : n \in 0..MaxSegments}

\* A quotient num / den of two numbers, den > 0, kept as it is.
Quotient(num, den) == [num |-> num, den |-> den]

\* speech_duration after a segment of length dur, with the test left out.
add_speech_any(dur, speech_duration) == speech_duration + dur

\* if dur > 0: speech_duration += dur
add_speech(dur, speech_duration) ==
    IF dur > 0 THEN speech_duration + dur ELSE speech_duration

\* A count that also counts the segments without avg_logprob.
inc_logprob_always(seg, logprob_count) == logprob_count + 1

\* if seg.avg_logprob is not None: logprob_count += 1
inc_logprob(seg, logprob_count) ==
    IF seg.avg_logprob # None THEN logprob_count + 1 ELSE logprob_count

\* if seg.avg_logprob is not None: total_logprob += v
add_logprob(seg, total_logprob) ==
    IF seg.avg_logprob # None THEN total_logprob + the(seg.avg_logprob) ELSE total_logprob

\* if the attribute is not None: the list gets its value appended
append_present(attr, list) == IF attr # None THEN Append(list, the(attr)) ELSE list

\* The accumulators before the first segment.
NoSegmentsYet ==
    [speech_duration |-> 0, total_logprob |-> 0, logprob_count |-> 0,
     compression_ratios |-> <<>>, no_speech_probs |-> <<>>]

\* for seg in segments_iter: the accumulators after the segments segs.
RECURSIVE segment_loop(_, _)
segment_loop(segs, acc) ==
    IF segs = <<>> THEN acc
    ELSE LET seg == Head(segs)
         IN  segment_loop(Tail(segs),
                [speech_duration |-> add_speech(seg.end - seg.start, acc.speech_duration),
                 total_logprob |-> add_logprob(seg, acc.total_logprob),
                 logprob_count |-> inc_logprob(seg, acc.logprob_count),
                 compression_ratios |-> append_present(seg.compression_ratio, acc.compression_ratios),
                 no_speech_probs |-> append_present(seg.no_speech_prob, acc.no_speech_probs)])

\* sum(list)
RECURSIVE sum(_)
sum(list) == IF list = <<>> THEN 0 ELSE Head(list) + sum(Tail(list))

\* The last element instead of the largest.
last_of(list) == list[Len(list)]

\* max(list) of a list that is not empty
RECURSIVE max(_)
max(list) ==
    IF Len(list) = 1 THEN Head(list)
    ELSE LET m == max(Tail(list)) IN IF Head(list) >= m THEN Head(list) ELSE m

\* "".join(seg.text for seg in segments)
RECURSIVE join_text(_)
join_text(segs) == IF segs = <<>> THEN "" ELSE Head(segs).text \o join_text(Tail(segs))

\* str.strip() for leading and trailing blanks
RECURSIVE strip(_)
strip(str) ==
    IF Len(str) > 0 /\ SubSeq(str, 1, 1) = " " THEN strip(SubSeq(str, 2, Len(str)))
    ELSE IF Len(str) > 0 /\ SubSeq(str, Len(str), Len(str)) = " "
         THEN strip(SubSeq(str, 1, Len(str) - 1))
    ELSE str

\* transcribe: the metrics it returns for the segments and the duration that
\* the engine yields (elapsed_ms and rtf, which are only logged, are left out).
transcribe(segments, duration) ==
    LET acc == segment_loop(segments, NoSegmentsYet)
    IN  [text |-> strip(join_text(segments)),
         duration_sec |-> duration,
         asr_avg_logprob |->
            IF acc.logprob_count # 0
            THEN Some(Quotient(acc.total_logprob, acc.logprob_count)) ELSE None,
         asr_compression_ratio |->
            IF acc.compression_ratios # <<>>
            THEN Some(Quotient(sum(acc.compression_ratios), Len(acc.compression_ratios)))
            ELSE None,
         asr_no_speech_prob |->
            IF acc.no_speech_probs # <<>> THEN Some(max(acc.no_speech_probs)) ELSE None,
         asr_speech_ratio |->
            IF duration # None /\ the(duration) # 0 /\ the(duration) > 0
            THEN Some(Quotient(acc.speech_duration, the(duration))) ELSE None]

TranscribeCalls ==
    {[op |-> "transcribe", segments |-> segs, duration |-> d, done |-> FALSE]
        : segs \in SegmentLists, d \in Durations}

\* One call of transcribe.
CalcTranscribe ==
    /\ calc.op = "transcribe" /\ ~calc.done
    /\ calc' = [op |-> "transcribe", segments |-> calc.segments, duration |-> calc.duration,
                done |-> TRUE, metrics |-> transcribe(calc.segments, calc.duration)]
    /\ UNCHANGED progVars

\* The values of one attribute over the segments that have it, in order.
PresentLogProbs(segs) ==
    LET has == SelectSeq(segs, LAMBDA sg : sg.avg_logprob # None)
    IN  [k \in 1..Len(has) |-> the(has[k].avg_logprob)]
PresentCompressionRatios(segs) ==
    LET has == SelectSeq(segs, LAMBDA sg : sg.compression_ratio # None)
    IN  [k \in 1..Len(has) |-> the(has[k].compression_ratio)]
PresentNoSpeechProbs(segs) ==
    LET has == SelectSeq(segs, LAMBDA sg : sg.no_speech_prob # None)
    IN  [k \in 1..Len(has) |-> the(has[k].no_speech_prob)]

\* The aggregate agg is the arithmetic mean of the values, or None without values.
IsMeanOf(agg, values) ==
    IF Len(values) = 0 THEN agg = None
    ELSE /\ agg # None
         /\ the(agg).den > 0
         /\ the(agg).num * Len(values) = sum(values) * the(agg).den

\* C23: the average log-probability that transcribe returns is the mean of
\* avg_logprob over the segments that have it and None when no segment has it;
\* the compression ratio likewise over compression_ratio.
C23_MeanOverPresent ==
    (calc.op = "transcribe" /\ calc.done) =>
        /\ IsMeanOf(calc.metrics.asr_avg_logprob, PresentLogProbs(calc.segments))
        /\ IsMeanOf(calc.metrics.asr_compression_ratio,
                    PresentCompressionRatios(calc.segments))

\* The segments have avg_logprob -0.1, -0.3 and None: the aggregate is
\* -0.4 / 2, and the compression ratio, which no segment has, is None.
C23_Witness ==
    /\ calc.op = "transcribe" /\ calc.done
    /\ Len(calc.segments) = 3
    /\ calc.segments[1].avg_logprob = Some(-1)
    /\ calc.segments[2].avg_logprob = Some(-3)
    /\ calc.segments[3].avg_logprob = None
    /\ calc.metrics.asr_avg_logprob = Some(Quotient(-4, 2))
    /\ calc.metrics.asr_compression_ratio = None

\* The sum of the lengths end - start of the segments that end after they start.
RECURSIVE PositiveLengths(_)
PositiveLengths(segs) ==
    IF segs = <<>> THEN 0
    ELSE (IF Head(segs).end > Head(segs).start THEN Head(segs).end - Head(segs).start ELSE 0)
         + PositiveLengths(Tail(segs))

\* C24: the speech ratio that transcribe returns is the sum of the positive
\* segment lengths divided by the duration when the duration is known and
\* greater than zero, and None when it is zero or unknown; it is never negative.
C24_SpeechRatio ==
    (calc.op = "transcribe" /\ calc.done) =>
        LET ratio == calc.metrics.asr_speech_ratio
            d == calc.duration
        IN  IF d # None /\ the(d) > 0
            THEN /\ ratio # None
                 /\ the(ratio).den > 0
                 /\ the(ratio).num * the(d) = PositiveLengths(calc.segments) * the(ratio).den
                 /\ the(ratio).num >= 0
            ELSE ratio = None

\* Duration 10, segments of 2 and 4 seconds and one that ends before it
\* starts: the ratio is 6 / 10.
C24_Witness ==
    /\ calc.op = "transcribe" /\ calc.done
    /\ calc.duration = Some(10)
    /\ Len(calc.segments) = 3
    /\ \E k \in 1..3 : calc.segments[k].end < calc.segments[k].start
    /\ calc.metrics.asr_speech_ratio = Some(Quotient(6, 10))

\* C25: the no-speech probability that transcribe returns is the largest
\* no_speech_prob among the segments that have one (it is the value of one of
\* them and not below any of them), and None when no segment has one.
C25_MaxNoSpeech ==
    (calc.op = "transcribe" /\ calc.done) =>
        LET values == PresentNoSpeechProbs(calc.segments)
            agg == calc.metrics.asr_no_speech_prob
        IN  IF Len(values) = 0 THEN agg = None
            ELSE /\ agg # None
                 /\ \E k \in 1..Len(values) : values[k] = the(agg)
                 /\ \A k \in 1..Len(values) : values[k] <= the(agg)

\* The largest value is the first of three, one segment has none.
C25_Witness ==
    /\ calc.op = "transcribe" /\ calc.done
    /\ Len(calc.segments) = 3
    /\ calc.segments[1].no_speech_prob = Some(5)
    /\ calc.segments[2].no_speech_prob = None
    /\ calc.segments[3].no_speech_prob = Some(1)
    /\ calc.metrics.asr_no_speech_prob = Some(5)

-----------------------------------------------------------------------------
(* submit_success *)

\* A payload that also carries a status and the segments.
submit_success_payload_raw(job_id, model_name, metrics) ==
    [id |-> job_id,
     asr_text |-> metrics.text,
     asr_model |-> model_name,
     asr_avg_logprob |-> metrics.asr_avg_logprob,
     asr_compression_ratio |-> metrics.asr_compression_ratio,
     asr_no_speech_prob |-> metrics.asr_no_speech_prob,
     asr_speech_ratio |-> metrics.asr_speech_ratio,
     status |-> "asr_done",
     segments |-> <<>>]

\* The payload of submit_success.
submit_success_payload(job_id, model_name, metrics) ==
    [id |-> job_id,
     asr_text |-> metrics.text,
     asr_model |-> model_name,
     asr_avg_logprob |-> metrics.asr_avg_logprob,
     asr_compression_ratio |-> metrics.asr_compression_ratio,
     asr_no_speech_prob |-> metrics.asr_no_speech_prob,
     asr_speech_ratio |-> metrics.asr_speech_ratio]

\* worker_loop after transcribe returned: submit_success(job_id, cfg,
\* cfg.whisper_model, metrics) builds its payload.
CalcSubmitSuccess ==
    /\ calc.op = "transcribe" /\ calc.done
    /\ calc' = [op |-> "submit_success", job_id |-> 1, metrics |-> calc.metrics,
                done |-> TRUE,
                payload |-> submit_success_payload(1, cfg.whisper_model, calc.metrics)]
    /\ UNCHANGED progVars

SuccessFields ==
    {"id", "asr_text", "asr_model", "asr_avg_logprob", "asr_compression_ratio",
     "asr_no_speech_prob", "asr_speech_ratio"}

\* The body of a success report: the seven fields, taken from the metrics.
SuccessBodyExact ==
    (calc.op = "submit_success") =>
        /\ DOMAIN calc.payload = SuccessFields
        /\ calc.payload.id = calc.job_id
        /\ calc.payload.asr_text = calc.metrics.text
        /\ calc.payload.asr_model = cfg.whisper_model
        /\ calc.payload.asr_avg_logprob = calc.metrics.asr_avg_logprob
        /\ calc.payload.asr_compression_ratio = calc.metrics.asr_compression_ratio
        /\ calc.payload.asr_no_speech_prob = calc.metrics.asr_no_speech_prob
        /\ calc.payload.asr_speech_ratio = calc.metrics.asr_speech_ratio

\* The body of a failure report: id, status and error, the status being st.
FailureBodyExact(st) ==
    (calc.op = "submit_failure" /\ calc.done) =>
        /\ DOMAIN calc.payload = {"id", "status", "error"}
        /\ calc.payload.id = calc.job_id
        /\ calc.payload.status = st

\* C26 as stated: a failure report carries the status "failed".
C26_ReportFieldsStatusFailed == SuccessBodyExact /\ FailureBodyExact("failed")

\* C26: a success report carries exactly id, asr_text, asr_model,
\* asr_avg_logprob, asr_compression_ratio, asr_no_speech_prob and
\* asr_speech_ratio (no status, no segments); a failure report carries exactly
\* id, status and error, and the status is "asr_failed".
C26_ReportFields == SuccessBodyExact /\ FailureBodyExact("asr_failed")

\* A success body built from metrics of which two are None.
C26_Witness ==
    /\ calc.op = "submit_success"
    /\ calc.payload.asr_text = "tower cleared to land"
    /\ calc.payload.asr_avg_logprob = Some(Quotient(-4, 2))
    /\ calc.payload.asr_compression_ratio # None
    /\ calc.payload.asr_no_speech_prob # None
    /\ calc.payload.asr_speech_ratio = None

\* C27: while a worker is inside transcribe it holds its job, which has no
\* report yet, and the process has not stopped: main is still waiting, or a
\* second signal has ended the process.
C27_HungTranscriptionBlocks ==
    \A w \in Workers :
        wPc[w] = "transcribe" =>
            /\ wItem[w] # NoItem
            /\ pops[wItem[w].id] = 1
            /\ Attempts(wItem[w].id) = 0
            /\ \A k \in 1..Len(job_queue) : job_queue[k].id # wItem[w].id
            /\ \/ mainPc = "wait"
               \/ mainPc = "exit1" /\ sigCount >= 2

\* A worker is still inside transcribe for job 1 after the first signal; the
\* other worker took job 2 later, reported it and left, the downloader is
\* done, and main is still waiting.
C27_Witness ==
    /\ SHUTDOWN /\ sigCount = 1
    /\ mainPc = "wait"
    /\ dlPc = "done"
    /\ popOrder = <<1, 2>>
    /\ Attempts(2) = 1
    /\ \E w, v \in Workers :
          /\ wPc[w] = "transcribe" /\ wItem[w].id = 1
          /\ wPc[v] = "done"

\* C29: whenever the downloader is about to push, the queue holds fewer than
\* cfg.max_queue_size items, so q.put does not block.
C29_PutNeverBlocks ==
    dlPc = "put" => (Len(job_queue) < cfg.max_queue_size /\ ~full(job_queue))

\* The downloader is about to push job 2; the queue was full with job 1 until
\* a worker took it.
C29_Witness ==
    /\ dlPc = "put"
    /\ dlJob = 2
    /\ pushes[1] = 1
    /\ job_queue = <<>>
    /\ \E w \in Workers : wItem[w].id = 1

-----------------------------------------------------------------------------
(* http_post_next_job: what it makes of an answer of the Job Source *)

\* The status code that http_post_next_job accepts.
HttpOk == 200

\* The bodies of an answer: not JSON, JSON that is not an object, or an
\* object with or without the members job, id and audio_url. The member job is
\* absent, null, an empty object or an object with fields.
Bodies ==
    {[json |-> "unparsable"], [json |-> "list"]}
    \cup {[json |-> "object", job |-> j, id |-> i, audio_url |-> a]
            : j \in {"absent", "null", "empty", "object"}, i \in BOOLEAN, a \in BOOLEAN}

\* The answers: the request raised (network error, timeout), or a status came
\* back with a body.
Responses ==
    {[raised |-> r, status_code |-> st, body |-> b]
        : r \in BOOLEAN, st \in {HttpOk, 500}, b \in Bodies}

\* A test that takes every status for a success.
status_is_any(status_code) == TRUE

\* if resp.status_code != 200: return None
status_is_ok(status_code) == status_code = HttpOk

\* http_post_next_job: "None", or which object it returns: the member job
\* ("member"), an empty member job ("empty"), or the body itself ("body").
next_job_of(resp) ==
    IF resp.raised \/ ~status_is_ok(resp.status_code) \/ resp.body.json = "unparsable"
    THEN "None"
    ELSE LET data == resp.body
             job == IF data.json = "object" /\ data.job # "absent" THEN data.job ELSE "null"
         IN  IF job = "null" /\ data.json = "object" /\ data.id /\ data.audio_url
             THEN "body"
             ELSE CASE job = "null" -> "None"
                    [] job = "empty" -> "empty"
                    [] job = "object" -> "member"

\* downloader_loop: "if not job" is false for an object that has fields.
is_job(job) == job \in {"member", "body"}

PollCalls == {[op |-> "http_post_next_job", resp |-> r, done |-> FALSE] : r \in Responses}

\* One call of http_post_next_job and the test "if not job" after it.
CalcPoll ==
    /\ calc.op = "http_post_next_job" /\ ~calc.done
    /\ LET job == next_job_of(calc.resp)
       IN  calc' = [op |-> "http_post_next_job", resp |-> calc.resp, done |-> TRUE,
                    job |-> job,
                    next |-> after_poll(IF is_job(job) THEN 1 ELSE NoJob)]
    /\ UNCHANGED progVars

\* The object of the answer exists: status 200 and a body that is a JSON object.
AnswerObject(resp) ==
    ~resp.raised /\ resp.status_code = 200 /\ resp.body.json = "object"

\* C28 as stated: an answer is taken for a job exactly when the status is 200
\* and the body has a non-empty member job or holds both id and audio_url.
C28_JobExactlyWhenStated ==
    (calc.op = "http_post_next_job" /\ calc.done) =>
        /\ is_job(calc.job) <=>
              /\ AnswerObject(calc.resp)
              /\ \/ calc.resp.body.job = "object"
                 \/ calc.resp.body.id /\ calc.resp.body.audio_url
        /\ calc.next = IF is_job(calc.job) THEN "download" ELSE "sleep_idle"

\* C28: an answer is taken for a job exactly when the status is 200 and the
\* body has a non-empty member job or, with the member job absent or null,
\* holds both id and audio_url; every other answer is "no job": the loop
\* sleeps and goes on.
C28_JobExactlyWhen ==
    (calc.op = "http_post_next_job" /\ calc.done) =>
        /\ is_job(calc.job) <=>
              /\ AnswerObject(calc.resp)
              /\ \/ calc.resp.body.job = "object"
                 \/ /\ calc.resp.body.job \in {"absent", "null"}
                    /\ calc.resp.body.id /\ calc.resp.body.audio_url
        /\ calc.next = IF is_job(calc.job) THEN "download" ELSE "sleep_idle"

\* A bare object with id and audio_url and a null member job is taken for a job.
C28_Witness ==
    /\ calc.op = "http_post_next_job" /\ calc.done
    /\ calc.resp.body.json = "object"
    /\ calc.resp.body.job = "null"
    /\ calc.job = "body"
    /\ calc.next = "download"

-----------------------------------------------------------------------------
(* The cache file of a job in use *)

\* The records whose file a worker still has to read: those in the queue and
\* those a worker is transcribing (path = item["path"]; transcribe(path, ...)).
FileInUse(path) ==
    \/ \E i \in 1..Len(job_queue) : job_queue[i].path = path
    \/ \E w \in Workers : wPc[w] = "transcribe" /\ wItem[w].path = path

\* download_audio has opened its path for writing and returned it.
DownloadWrites == dlPc = "download" /\ dlPc' = "put"

\* C30: the downloader never writes to the cache file of a job that is still
\* queued or being transcribed, also when two jobs map to the same path.
C30_NoWriteToFileInUse ==
    [][DownloadWrites => ~FileInUse(cache_path(dlJob))]_vars

-----------------------------------------------------------------------------
(* Jobs pulled and not yet retired *)

\* The ids of the records in the queue, oldest first.
QueuedIds == [k \in 1..Len(job_queue) |-> job_queue[k].id]

\* The jobs the downloader holds (one poll or download at a time).
DownloaderHolds == IF dlJob = NoJob THEN {} ELSE {dlJob}

\* The jobs workers hold, from q.get to q.task_done.
WorkersHold == {wItem[w].id : w \in InHand}

\* How many records the process holds: in the queue, in the downloader and
\* in the workers.
HeldCount == Len(job_queue) + Cardinality(DownloaderHolds) + Cardinality(InHand)

\* The jobs the process holds.
HeldJobs == {QueuedIds[k] : k \in 1..Len(job_queue)} \cup DownloaderHolds \cup WorkersHold

-----------------------------------------------------------------------------
(* An exception that escapes the steps of a pulled job *)

\* The job of the current iteration: the one the latest poll handed out.
CurrentJob == nextId - 1

\* The iteration that pulled a job has not reached its end (the sleep of the
\* except branch included).
InJobIteration == pollResult = "job" /\ CurrentJob \in JobIds

\* C32: when an exception escapes the steps of a pulled job (download_audio
\* raising outside its try block), the loop sleeps the idle interval and goes
\* on, and the job is neither enqueued nor reported, now or later.
C32_EscapedExceptionDropsJob ==
    /\ \A i \in JobIds :
          fate[i] = "download_raised" =>
              /\ pushes[i] = 0
              /\ posts[i] = <<>>
              /\ i \notin HeldJobs
    /\ (InJobIteration /\ fate[CurrentJob] = "download_raised") =>
           dlPc = "sleep_idle"
    /\ (dlPc = "done" /\ \E i \in JobIds : fate[i] = "download_raised") => SHUTDOWN

\* Job 1 was dropped by an exception and the loop has gone on to pull job 2.
C32_Witness ==
    /\ fate[1] = "download_raised"
    /\ posts[1] = <<>>
    /\ dlJob = 2
    /\ dlPc = "download"

-----------------------------------------------------------------------------
(* A job without an id *)

\* C33: a pulled job that carries no id and whose download fails gets no
\* failure report and is not enqueued; the downloader drops it at the
\* "if not path" branch and goes on.
C33_NoIdDownloadFailedDropped ==
    \A i \in JobIds :
        (~has_id[i] /\ fate[i] = "download_failed") =>
            /\ posts[i] = <<>>
            /\ lastPost.id # i
            /\ pushes[i] = 0
            /\ i \notin HeldJobs \/ (dlJob = i /\ dlPc = "submit_failure")
            /\ dlPc = "done" => SHUTDOWN

\* The job without an id was dropped and the next job has been pulled.
C33_Witness ==
    /\ ~has_id[1] /\ fate[1] = "download_failed"
    /\ posts[1] = <<>>
    /\ dlJob = 2 /\ dlPc = "download"

-----------------------------------------------------------------------------
(* A capacity of zero or less *)

\* C34: with max_queue_size configured as 0 or negative the backpressure test
\* is true in every iteration: the downloader never polls, and no job is ever
\* pulled, queued or reported.
C34_NoCapacityNoPoll ==
    cfg.max_queue_size <= 0 =>
        /\ dlPc \in {"not_started", "top", "qsize", "sleep_full", "done"}
        /\ pollResult = "none"
        /\ nextId = 1
        /\ dlJob = NoJob
        /\ job_queue = <<>>
        /\ \A i \in JobIds : posts[i] = <<>> /\ pushes[i] = 0
        /\ \A w \in Workers : wItem[w] = NoItem

\* The downloader has run the backpressure test with capacity 0 and sleeps,
\* while a worker found the queue empty.
C34_Witness ==
    /\ cfg.max_queue_size = 0
    /\ dlPc = "sleep_full"
    /\ \E w \in Workers : wPc[w] = "empty"
    /\ ~SHUTDOWN

-----------------------------------------------------------------------------
(* A signal during the model load *)

\* The first signal has set the flag while main is in build_model: the
\* handlers are installed, the threads are not started.
SignalBeforeStart == mainPc = "build_model" /\ SHUTDOWN

\* No poll was made, nothing was dequeued, nothing was reported.
NothingDone ==
    /\ nextId = 1 /\ pollResult = "none" /\ pollsAfterSignal = 0
    /\ dlPc \in {"not_started", "top", "done"}
    /\ job_queue = <<>>
    /\ \A w \in Workers : wItem[w] = NoItem /\ wPc[w] \in {"not_started", "top", "done"}
    /\ \A i \in JobIds : posts[i] = <<>> /\ pops[i] = 0

\* From a signal during the model load on, no poll, no dequeue and no report.
SignalBeforeStartNothingDone == [](SignalBeforeStart => []NothingDone)

\* After a signal during the model load the workers exit and main returns,
\* unless the process is ended by exit(1).
SignalBeforeStartMainReturns ==
    SignalBeforeStart ~> (Killed \/ (AllWorkersDone /\ mainPc = "stopped"))

\* C35: after a first signal during the model load, under fair scheduling,
\* nothing is polled, dequeued or reported, and the downloader loop exits,
\* every worker loop exits and main returns (unless exit(1) ends the process).
C35_SignalBeforeStartStopsAll ==
    /\ SignalBeforeStartNothingDone
    /\ SignalBeforeStart ~> (Killed \/ (dlPc = "done" /\ AllWorkersDone /\ mainPc = "stopped"))

-----------------------------------------------------------------------------
(* asr_sandbox.py: transcribe *)

\* A dict whose text is stripped segment by segment.
seg_dict_stripped(seg) ==
    [start |-> seg.start, end |-> seg.end, text |-> strip(seg.text),
     avg_logprob |-> seg.avg_logprob, compression_ratio |-> seg.compression_ratio,
     no_speech_prob |-> seg.no_speech_prob]

\* seg_dict: start, end and text of the segment, and each of avg_logprob,
\* compression_ratio and no_speech_prob that is not None (id and words, which
\* no aggregate reads, are left out).
seg_dict(seg) ==
    [start |-> seg.start, end |-> seg.end, text |-> seg.text,
     avg_logprob |-> seg.avg_logprob, compression_ratio |-> seg.compression_ratio,
     no_speech_prob |-> seg.no_speech_prob]

\* The sandbox's accumulators before the first segment.
SandboxNoSegmentsYet ==
    [segments |-> <<>>, speech_duration |-> 0, total_logprob |-> 0, logprob_count |-> 0,
     compression_ratios |-> <<>>, no_speech_probs |-> <<>>]

\* for seg in segments_iter, in the sandbox: the accumulators and the list of
\* dicts after the segments segs.
RECURSIVE sandbox_segment_loop(_, _)
sandbox_segment_loop(segs, acc) ==
    IF segs = <<>> THEN acc
    ELSE LET seg == Head(segs)
             dur == seg.end - seg.start
             has_logprob == seg.avg_logprob # None
         IN  sandbox_segment_loop(Tail(segs),
                [segments |-> Append(acc.segments, seg_dict(seg)),
                 speech_duration |->
                    IF dur > 0 THEN acc.speech_duration + dur ELSE acc.speech_duration,
                 total_logprob |->
                    IF has_logprob THEN acc.total_logprob + the(seg.avg_logprob)
                    ELSE acc.total_logprob,
                 logprob_count |->
                    IF has_logprob THEN acc.logprob_count + 1 ELSE acc.logprob_count,
                 compression_ratios |->
                    IF seg.compression_ratio # None
                    THEN Append(acc.compression_ratios, the(seg.compression_ratio))
                    ELSE acc.compression_ratios,
                 no_speech_probs |->
                    IF seg.no_speech_prob # None
                    THEN Append(acc.no_speech_probs, the(seg.no_speech_prob))
                    ELSE acc.no_speech_probs])

\* "".join(seg["text"] for seg in segments), over the dicts
RECURSIVE join_dict_text(_)
join_dict_text(dicts) ==
    IF dicts = <<>> THEN "" ELSE Head(dicts).text \o join_dict_text(Tail(dicts))

\* The sandbox's transcribe: what it returns for the segments and the duration
\* that the engine yields (language, elapsed_ms and rtf are left out).
sandbox_transcribe(segments, duration, model_name) ==
    LET acc == sandbox_segment_loop(segments, SandboxNoSegmentsYet)
    IN  [model |-> model_name,
         text |-> strip(join_dict_text(acc.segments)),
         duration_sec |-> duration,
         segments |-> acc.segments,
         asr_avg_logprob |->
            IF acc.logprob_count # 0
            THEN Some(Quotient(acc.total_logprob, acc.logprob_count)) ELSE None,
         asr_compression_ratio |->
            IF acc.compression_ratios # <<>>
            THEN Some(Quotient(sum(acc.compression_ratios), Len(acc.compression_ratios)))
            ELSE None,
         asr_no_speech_prob |->
            IF acc.no_speech_probs # <<>> THEN Some(max(acc.no_speech_probs)) ELSE None,
         asr_speech_duration_sec |-> acc.speech_duration,
         asr_speech_ratio |->
            IF duration # None /\ the(duration) # 0 /\ the(duration) > 0
            THEN Some(Quotient(acc.speech_duration, the(duration))) ELSE None]

SandboxCalls ==
    {[op |-> "sandbox_transcribe", segments |-> segs, duration |-> d, done |-> FALSE]
        : segs \in SegmentLists, d \in Durations}

\* One call of the sandbox's transcribe.
CalcSandboxTranscribe ==
    /\ calc.op = "sandbox_transcribe" /\ ~calc.done
    /\ calc' = [op |-> "sandbox_transcribe", segments |-> calc.segments,
                duration |-> calc.duration, done |-> TRUE,
                result |-> sandbox_transcribe(calc.segments, calc.duration, "small")]
    /\ UNCHANGED progVars

\* The fields both functions return and the claim compares.
SharedMetrics ==
    {"text", "asr_avg_logprob", "asr_compression_ratio", "asr_no_speech_prob",
     "asr_speech_ratio"}

\* C36: for the same segments and the same info.duration the sandbox's
\* transcribe returns the values of the worker's transcribe for text,
\* asr_avg_logprob, asr_compression_ratio, asr_no_speech_prob and
\* asr_speech_ratio, and it returns every field the worker returns, with one
\* dict per segment on top.
C36_SandboxSameMetrics ==
    (calc.op = "sandbox_transcribe" /\ calc.done) =>
        LET worker == transcribe(calc.segments, calc.duration)
        IN  /\ \A f \in SharedMetrics : calc.result[f] = worker[f]
            /\ DOMAIN worker \subseteq DOMAIN calc.result
            /\ calc.result.duration_sec = worker.duration_sec
            /\ Len(calc.result.segments) = Len(calc.segments)

\* Three segments, one of them without avg_logprob and one that ends before
\* it starts, with a known duration: the text and all four aggregates are set.
C36_Witness ==
    /\ calc.op = "sandbox_transcribe" /\ calc.done
    /\ Len(calc.segments) = 3
    /\ calc.segments[1].avg_logprob = None
    /\ calc.segments[2].end < calc.segments[2].start
    /\ calc.duration = Some(10)
    /\ calc.result.text = "tower cleared to land  tower"
    /\ calc.result.asr_avg_logprob # None
    /\ calc.result.asr_speech_ratio # None
    /\ Len(calc.result.segments) = 3

-----------------------------------------------------------------------------
(* airband_realtime_sync.py: AirbandUploader.on_moved *)

\* str.endswith
endswith(str, suffix) ==
    Len(str) >= Len(suffix) /\ SubSeq(str, Len(str) - Len(suffix) + 1, Len(str)) = suffix

\* event.dest_path of a move event.
DestPaths == {"rec/118.mp3", "rec/118.tmp", "rec/118.mp3.tmp", "rec/118.wav", "mp3"}

\* How the POST to /api/ingest ends: status 200 or 201, another status, a
\* timeout, or another exception (of the request or of response.json()).
NotifyOutcomes == {"200", "201", "500", "timeout", "raised"}

\* A move event with what the file system, the object storage and the API do
\* when the handler gets to them: whether the file is under base_dir, whether
\* stat() raises (the file is gone), whether fput_object raises.
MoveEvents ==
    {[is_directory |-> d, dest_path |-> p, under_base |-> u, stat_raises |-> s,
      upload_raises |-> r, notify |-> n]
        : d \in BOOLEAN, p \in DestPaths, u \in BOOLEAN, s \in BOOLEAN,
          r \in BOOLEAN, n \in NotifyOutcomes}

\* _upload_to_r2: True when fput_object returned, False when it raised.
upload_to_r2(ev) == ~ev.upload_raises

\* _notify_api: True for status 200 or 201, False otherwise.
notify_api(ev) == ev.notify \in {"200", "201"}

\* A test that lets a failed upload through.
upload_failed_ignored(ev) == FALSE

\* if not self._upload_to_r2(file_path, object_key): return
upload_failed(ev) == ~upload_to_r2(ev)

\* The body of the try block of _process_file: the calls it makes to the
\* object storage and to the API, in order, and the exception it ends with.
process_file_body(ev) ==
    IF ~ev.under_base THEN [calls |-> <<>>, raised |-> "none"]
    ELSE IF ev.stat_raises THEN [calls |-> <<>>, raised |-> "OSError"]
    ELSE IF upload_failed(ev) THEN [calls |-> <<"upload">>, raised |-> "none"]
    ELSE [calls |-> <<"upload", "notify">>, raised |-> "none"]

\* except Exception: what the handler clause of _process_file catches.
except_Exception(raised) == raised \in {"OSError", "ValueError"}

\* _process_file: the try block and its except clause.
process_file(ev) ==
    LET body == process_file_body(ev)
    IN  [calls |-> body.calls,
         escaped |-> body.raised # "none" /\ ~except_Exception(body.raised),
         notified |-> body.calls # <<>> /\ body.calls[Len(body.calls)] = "notify"
                        /\ notify_api(ev)]

\* on_moved: directories and destinations that are not .mp3 files are skipped.
on_moved(ev) ==
    IF ev.is_directory THEN [calls |-> <<>>, escaped |-> FALSE, notified |-> FALSE]
    ELSE IF ~endswith(ev.dest_path, ".mp3") \/ endswith(ev.dest_path, ".tmp")
         THEN [calls |-> <<>>, escaped |-> FALSE, notified |-> FALSE]
    ELSE process_file(ev)

MoveCalls == {[op |-> "on_moved", event |-> ev, done |-> FALSE] : ev \in MoveEvents}

\* One move event handled by on_moved.
CalcOnMoved ==
    /\ calc.op = "on_moved" /\ ~calc.done
    /\ calc' = [op |-> "on_moved", event |-> calc.event, done |-> TRUE,
                result |-> on_moved(calc.event)]
    /\ UNCHANGED progVars

\* The positions of a call in the calls of one event.
CallsOf(calls, name) == {k \in 1..Len(calls) : calls[k] = name}

\* C37: per move event the API is notified at most once and only after the
\* upload of that recording succeeded; a failed upload, a file outside the
\* watched directory, a directory event or a destination that does not end in
\* .mp3 sends no notification; no exception escapes the handler.
C37_NotifyOnlyAfterUpload ==
    (calc.op = "on_moved" /\ calc.done) =>
        LET ev == calc.event
            calls == calc.result.calls
        IN  /\ Cardinality(CallsOf(calls, "notify")) <= 1
            /\ Cardinality(CallsOf(calls, "upload")) <= 1
            /\ \A k \in CallsOf(calls, "notify") :
                  /\ \E j \in CallsOf(calls, "upload") : j < k
                  /\ ~ev.upload_raises
            /\ (\/ ev.upload_raises
                \/ ~ev.under_base
                \/ ev.is_directory
                \/ ~endswith(ev.dest_path, ".mp3")) => CallsOf(calls, "notify") = {}
            /\ ~calc.result.escaped

\* A recording that was uploaded and then notified, and the API accepted it.
C37_Witness ==
    /\ calc.op = "on_moved" /\ calc.done
    /\ calc.event.dest_path = "rec/118.mp3"
    /\ calc.result.calls = <<"upload", "notify">>
    /\ calc.result.notified

-----------------------------------------------------------------------------
(* analyze_channel_quality.py: sample_transmissions *)

\* Most transmissions in a list of mixed hours and durations.
MaxTransmissions == 4

\* The size of one crowded hour bucket, large enough for two jittered indices
\* to fall on the same position.
CrowdedBucket == 12

\* tx["started_at"]: missing or malformed (None), or a time in a given hour.
StartedAts == {None, Some(5), Some(9)}

\* What a transmission can look like: every started_at with one duration, and
\* one hour with a missing and with a longer duration.
TxKinds ==
    {[started_at |-> s, duration_sec |-> Some(3)] : s \in StartedAts}
    \cup {[started_at |-> Some(5), duration_sec |-> d] : d \in {None, Some(7)}}

\* A list of transmissions; id is the position in the list, which tells one
\* dict of the list from another.
TxList(kinds) ==
    [k \in 1..Len(kinds) |->
        [id |-> k, started_at |-> kinds[k].started_at, duration_sec |-> kinds[k].duration_sec]]

TxLists == {TxList(kinds) : kinds \in UNION {[1..m -> TxKinds] : m \in 0..MaxTransmissions}}

\* CrowdedBucket transmissions in the same hour, each longer than the one before.
CrowdedList ==
    [k \in 1..CrowdedBucket |-> [id |-> k, started_at |-> Some(5), duration_sec |-> Some(k)]]

\* tx["_hour"]: the hour of started_at, 0 when it cannot be parsed.
hour_of(tx) == IF tx.started_at = None THEN 0 ELSE the(tx.started_at)

\* hour_buckets.keys()
hour_keys(transmissions) == {hour_of(transmissions[k]) : k \in 1..Len(transmissions)}

\* hour_buckets[hour]: the transmissions of that hour, in the order of the list.
hour_bucket(transmissions, hour) == SelectSeq(transmissions, LAMBDA tx : hour_of(tx) = hour)

\* key=lambda x: x.get("duration_sec") or 0
duration_key(tx) == IF tx.duration_sec = None THEN 0 ELSE the(tx.duration_sec)

\* sorted(bucket, key=...): a stable sort, by insertion from the left.
RECURSIVE insert_by_duration(_, _)
insert_by_duration(sorted, tx) ==
    IF sorted = <<>> THEN <<tx>>
    ELSE IF duration_key(sorted[Len(sorted)]) <= duration_key(tx) THEN Append(sorted, tx)
    ELSE Append(insert_by_duration(SubSeq(sorted, 1, Len(sorted) - 1), tx), sorted[Len(sorted)])

RECURSIVE sorted_by_duration(_)
sorted_by_duration(bucket) ==
    IF bucket = <<>> THEN <<>>
    ELSE insert_by_duration(sorted_by_duration(SubSeq(bucket, 1, Len(bucket) - 1)),
                            bucket[Len(bucket)])

\* The values int(np.clip(idx + uniform(-jitter_range, jitter_range), 0, size - 1))
\* can take for the k-th value (k from 0) of np.linspace(0, size - 1, take),
\* with jitter_range = 0.1 * size / take. Everything is multiplied by
\* scale = 10 * take * (take - 1), or by 10 when take = 1, to stay in integers.
jittered_indices(k, size, take) ==
    LET den == IF take > 1 THEN take - 1 ELSE 1
        scale == 10 * take * den
        idx == 10 * take * k * (size - 1)
        jitter_range == size * den
        low == IF idx - jitter_range < 0 THEN 0 ELSE idx - jitter_range
        high == IF idx + jitter_range > (size - 1) * scale THEN (size - 1) * scale
                ELSE idx + jitter_range
    IN  (low \div scale)..(high \div scale)

\* for idx in base_indices: indices.append(jittered): the lists indices can be
\* after the first count values of base_indices.
RECURSIVE jittered_lists(_, _, _)
jittered_lists(count, size, take) ==
    IF count = 0 THEN {<<>>}
    ELSE {Append(list, j) : list \in jittered_lists(count - 1, size, take),
                            j \in jittered_indices(count - 1, size, take)}

\* sorted(...) of a set of integers
RECURSIVE sorted_set(_)
sorted_set(s) ==
    IF s = {} THEN <<>>
    ELSE LET least == CHOOSE x \in s : \A y \in s : x <= y
         IN  <<least>> \o sorted_set(s \ {least})

\* sorted(...) of a list of integers, duplicates kept
RECURSIVE sorted_list(_)
sorted_list(list) ==
    IF list = <<>> THEN <<>>
    ELSE LET least == CHOOSE k \in 1..Len(list) : \A j \in 1..Len(list) : list[k] <= list[j]
         IN  <<list[least]>> \o
             sorted_list(SubSeq(list, 1, least - 1) \o SubSeq(list, least + 1, Len(list)))

\* seq[:count]
first_of(seq, count) == SubSeq(seq, 1, IF Len(seq) < count THEN Len(seq) ELSE count)

\* Indices that are sorted without removing the duplicates.
sorted_indices_with_duplicates(indices, take) == first_of(sorted_list(indices), take)

\* indices = sorted(set(indices))[:take]
sorted_indices(indices, take) ==
    first_of(sorted_set({indices[k] : k \in 1..Len(indices)}), take)

\* What is selected from one bucket: the whole bucket when it has at most take
\* transmissions, otherwise the transmissions at the jittered indices of the
\* bucket sorted by duration (indices count from 0).
bucket_selections(bucket, take) ==
    IF Len(bucket) <= take THEN {bucket}
    ELSE LET sorted_bucket == sorted_by_duration(bucket)
         IN  {LET indices == sorted_indices(list, take)
              IN  [k \in 1..Len(indices) |-> sorted_bucket[indices[k] + 1]]
                 : list \in jittered_lists(take, Len(bucket), take)}

\* for hour in sorted(hour_buckets.keys()): the lists selected can be after
\* the buckets of the hours still to come.
RECURSIVE hour_loop(_, _, _, _, _)
hour_loop(transmissions, hours, samples_per_hour, remaining, selected) ==
    IF hours = {} THEN {selected}
    ELSE LET hour == CHOOSE h \in hours : \A g \in hours : h <= g
             take == IF remaining > 0 THEN samples_per_hour + 1 ELSE samples_per_hour
             left == IF remaining > 0 THEN remaining - 1 ELSE remaining
         IN  UNION {hour_loop(transmissions, hours \ {hour}, samples_per_hour, left,
                              selected \o chosen)
                       : chosen \in bucket_selections(hour_bucket(transmissions, hour), take)}

\* sample_transmissions: the lists it can return, one for every outcome of
\* np.random.uniform.
sample_transmissions(transmissions, n) ==
    IF Len(transmissions) <= n THEN {transmissions}
    ELSE LET num_hours == Cardinality(hour_keys(transmissions))
             samples_per_hour == IF n \div num_hours > 1 THEN n \div num_hours ELSE 1
             remaining == n - samples_per_hour * num_hours
         IN  {first_of(selected, n)
                 : selected \in hour_loop(transmissions, hour_keys(transmissions),
                                          samples_per_hour, remaining, <<>>)}

SampleCalls ==
    {[op |-> "sample_transmissions", transmissions |-> txs, n |-> n, done |-> FALSE]
        : txs \in TxLists, n \in 1..MaxTransmissions}
    \cup {[op |-> "sample_transmissions", transmissions |-> CrowdedList,
           n |-> CrowdedBucket - 1, done |-> FALSE]}

\* One call of sample_transmissions, with one outcome of the jitter.
CalcSample ==
    /\ calc.op = "sample_transmissions" /\ ~calc.done
    /\ \E selected \in sample_transmissions(calc.transmissions, calc.n) :
          calc' = [op |-> "sample_transmissions", transmissions |-> calc.transmissions,
                   n |-> calc.n, done |-> TRUE, selected |-> selected]
    /\ UNCHANGED progVars

\* C38: sample_transmissions(transmissions, n) with n >= 1 returns at most n
\* items, each an element of the input and none twice, and returns the input
\* unchanged when it has at most n items, whatever the jitter.
C38_SampleWithinInput ==
    (calc.op = "sample_transmissions" /\ calc.done) =>
        LET txs == calc.transmissions
            sel == calc.selected
        IN  /\ Len(sel) <= calc.n
            /\ \A k \in 1..Len(sel) : \E j \in 1..Len(txs) : sel[k] = txs[j]
            /\ \A k, j \in 1..Len(sel) : sel[k].id = sel[j].id => k = j
            /\ Len(txs) <= calc.n => sel = txs

\* Two jittered indices of the crowded bucket fell on the same position, so
\* fewer than n transmissions are returned.
C38_Witness ==
    /\ calc.op = "sample_transmissions" /\ calc.done
    /\ Len(calc.transmissions) = CrowdedBucket
    /\ Len(calc.selected) < calc.n

\* A single call: its arguments are drawn here.
CalcInit ==
    /\ CalcProgInit
    /\ \/ calc \in FailureCalls
       \/ calc \in TranscribeCalls
       \/ calc \in PollCalls
       \/ calc \in SandboxCalls
       \/ calc \in MoveCalls
       \/ calc \in SampleCalls

CalcNext ==
    \/ CalcSubmitFailure
    \/ CalcTranscribe
    \/ CalcSubmitSuccess
    \/ CalcPoll
    \/ CalcSandboxTranscribe
    \/ CalcOnMoved
    \/ CalcSample

CalcSpec == CalcInit /\ [][CalcNext]_vars

====
